---- MODULE Spec2Model ----
(***************************************************************************)
(* Model of the Reflection plugin (src/src/main.ts, src/src/settings.ts,   *)
(* src/src/models.ts): the readiness retry of init, the render gate kept   *)
(* in leafRegistry, the file classifier, the previous-period resolver and  *)
(* the look-back setting.                                                  *)
(***************************************************************************)
EXTENDS Integers, Sequences, FiniteSets, TLC

VARIABLES
    settings,               \* Reflection.settings (PluginSettings)
    ready,                  \* Reflection.ready
    noteCaches,             \* Reflection.noteCaches
    periodicNotesSettings,  \* Reflection.periodicNotesSettings
    leafRegistry,           \* Reflection.leafRegistry
    data,                   \* what saveData persisted last
    text,                   \* the value of the settings tab's text field
    phase,                  \* "constructed" until onload has run, then "loaded"
    dep,                    \* whether the indexing library's calls succeed now
    vault,                  \* the periodic notes that exist in the vault now
    libSettings,            \* the folders configured in the indexing library now
    leaves,                 \* the workspace's leaves: view, file, marker elements
    anchors,                \* which anchor elements the editors' DOM holds now
    last,                   \* what the last handler did (per leaf)
    call,                   \* the last getFilesFromLastTime call and its outcome
    navigated               \* while the plugin is not ready: the markdown views
                            \* a navigation event has reached (kept by SpecNav)

vars == <<settings, ready, noteCaches, periodicNotesSettings, leafRegistry, data,
          text, phase, dep, vault, libSettings, leaves, anchors, last, call,
          navigated>>

----------------------------------------------------------------------------
(* Bounds *)

MaxLookBack == 3    \* largest finite look-back count drawn for the resolver
MaxNotes == 2       \* most notes in the vault
MaxTextLen == 2     \* longest text typed into the look-back field

----------------------------------------------------------------------------
(* JavaScript values *)

Undefined == [k |-> "undefined"]
Null == [k |-> "null"]

\* A JavaScript number: finite (v counts units of 1/Scale), +-Infinity or NaN.
Pow10(n) == 10 ^ n
Scale == Pow10(MaxTextLen)
Fin(v) == [k |-> "fin", v |-> v]
Inf(s) == [k |-> "inf", v |-> s]
NaN == [k |-> "nan", v |-> 0]
Int2Num(n) == Fin(n * Scale)

----------------------------------------------------------------------------
(* The calendar of the date library (moment), proleptic Gregorian *)

IsLeap(y) == (y % 4 = 0 /\ y % 100 # 0) \/ y % 400 = 0

DaysInMonth(y, m) ==
    IF m = 2 THEN (IF IsLeap(y) THEN 29 ELSE 28)
    ELSE IF m \in {4, 6, 9, 11} THEN 30 ELSE 31

RECURSIVE DaysBeforeMonth(_, _)
DaysBeforeMonth(y, m) ==
    IF m = 1 THEN 0 ELSE DaysBeforeMonth(y, m - 1) + DaysInMonth(y, m - 1)

DaysBeforeYear(y) ==
    365 * (y - 1) + ((y - 1) \div 4) - ((y - 1) \div 100) + ((y - 1) \div 400)

Date(y, m, d) == [k |-> "date", y |-> y, m |-> m, d |-> d]

IsValidDate(dt) ==
    /\ dt.m \in 1..12
    /\ dt.d \in 1..DaysInMonth(dt.y, dt.m)

\* Day number of a date; day 1 is Monday 0001-01-01, so DayNum % 7 is the
\* weekday with Sunday = 0.
DayNum(dt) == DaysBeforeYear(dt.y) + DaysBeforeMonth(dt.y, dt.m) + dt.d

FromDayNum(n) ==
    LET y == CHOOSE yy \in (n \div 366)..((n \div 365) + 1) :
                 DaysBeforeYear(yy) < n /\ n <= DaysBeforeYear(yy + 1)
        doy == n - DaysBeforeYear(y)
        m == CHOOSE mm \in 1..12 :
                 /\ DaysBeforeMonth(y, mm) < doy
                 /\ doy <= DaysBeforeMonth(y, mm) + DaysInMonth(y, mm)
    IN Date(y, m, doy - DaysBeforeMonth(y, m))

\* moment.startOf("week") in the default locale: back to Sunday.
StartOfWeek(dt) == FromDayNum(DayNum(dt) - (DayNum(dt) % 7))

\* moment.subtract(n, "years"): same month and day, the day clamped to the
\* length of the month (Feb 29 becomes Feb 28 in a common year).
SubtractYears(dt, n) ==
    LET y == dt.y - n
        dim == DaysInMonth(y, dt.m)
    IN Date(y, dt.m, IF dt.d > dim THEN dim ELSE dt.d)

\* The first day of week w of year y in the default locale (week 1 holds
\* January 1st, weeks start on Sunday).
WeekStart(y, w) ==
    LET jan1 == DayNum(Date(y, 1, 1))
    IN FromDayNum(jan1 - (jan1 % 7) + 7 * (w - 1))

----------------------------------------------------------------------------
(* Files and the indexing library (obsidian-daily-notes-interface) *)

\* A string is a sequence of characters; startsWith as in JavaScript.
StartsWith(s, prefix) ==
    /\ Len(prefix) <= Len(s)
    /\ SubSeq(s, 1, Len(prefix)) = prefix

Str(s) == [k |-> "str", s |-> s]
Folder(s) == [k |-> "folder", path |-> s]

DailyFolder == <<"d">>
WeeklyFolder == <<"w">>

\* A basename is what the file is called: a day "YYYY-MM-DD" (a = month,
\* b = day), a week "gggg-[W]ww" (a = week, b = 0) or something else.
DayName(y, m, d) == [f |-> "D", y |-> y, a |-> m, b |-> d]
WeekName(y, w) == [f |-> "W", y |-> y, a |-> w, b |-> 0]
JunkName == [f |-> "X", y |-> 0, a |-> 0, b |-> 0]

\* A TFile: its parent (Null when it has none), its basename and its path.
TFile(parent, base) ==
    [k |-> "file", parent |-> parent, basename |-> base,
     path |-> [k |-> "str", parent |-> parent, basename |-> base]]

\* getDateFromFile(file, granularity): the basename parsed strictly with the
\* format of that granularity; Null when it does not parse.
getDateFromFile(file, granularity) ==
    LET b == file.basename IN
    IF granularity = "day" /\ b.f = "D" /\ IsValidDate(Date(b.y, b.a, b.b))
        THEN Date(b.y, b.a, b.b)
    ELSE IF granularity = "week" /\ b.f = "W" /\ b.a \in 1..52
        THEN WeekStart(b.y, b.a)
    ELSE Null

\* getDateUID(date, granularity): names the start of the date's period.
getDateUID(dt, granularity) ==
    IF granularity = "week" THEN <<"week", DayNum(StartOfWeek(dt))>>
    ELSE <<"day", DayNum(dt)>>

\* getAllDailyNotes / getAllWeeklyNotes over the notes of a vault: every file
\* of the folder whose name holds a date, under the UID of that date.
AllNotes(v, folder, granularity) ==
    LET fs == {n \in v : /\ n.parent # Null
                         /\ StartsWith(n.parent.path, folder)
                         /\ getDateFromFile(n, granularity) # Null}
        uid(n) == getDateUID(getDateFromFile(n, granularity), granularity)
    IN [u \in {uid(n) : n \in fs} |-> CHOOSE n \in fs : uid(n) = u]

getAllDailyNotes(v) == AllNotes(v, DailyFolder, "day")
getAllWeeklyNotes(v) == AllNotes(v, WeeklyFolder, "week")

\* getDailyNote / getWeeklyNote(date, index): index[uid] ?? null.
getDailyNote(dt, index) ==
    IF getDateUID(dt, "day") \in DOMAIN index THEN index[getDateUID(dt, "day")] ELSE Null

getWeeklyNote(dt, index) ==
    IF getDateUID(dt, "week") \in DOMAIN index THEN index[getDateUID(dt, "week")] ELSE Null

----------------------------------------------------------------------------
(* The plugin object and the outcome of a call *)

This == [settings |-> settings, ready |-> ready, noteCaches |-> noteCaches,
         periodicNotesSettings |-> periodicNotesSettings,
         leafRegistry |-> leafRegistry]

\* settings.ts: DEFAULT_SETTINGS.
DEFAULT_SETTINGS == [lookBack |-> Int2Num(5)]

Return(v) == [k |-> "return", value |-> v]
Throw(e) == [k |-> "throw", error |-> e]
Diverge == [k |-> "diverge"]

\* i <= n for a loop counter i and a JavaScript number n.
LeqNum(i, n) ==
    CASE n.k = "fin" -> i * Scale <= n.v
      [] n.k = "inf" -> n.v > 0
      [] OTHER -> FALSE

----------------------------------------------------------------------------
(* The previous-period resolver *)

\* A Map<number, TFile>: its entries in insertion order.
MapSet(m, key, value) ==
    IF \E i \in 1..Len(m) : m[i].key = key
        THEN [i \in 1..Len(m) |->
                 IF m[i].key = key THEN [key |-> key, value |-> value] ELSE m[i]]
        ELSE Append(m, [key |-> key, value |-> value])

\* Mutant: the offset is counted from 0, so offset k finds the note k - 1 years back.
getFileFromPreviousPeriodOffByOne(this, file, fileType, lookBack) ==
    LET g == IF fileType = "daily" THEN "day" ELSE "week" IN
    IF fileType \notin {"daily", "weekly"} THEN Throw("Unknown File Type")
    ELSE IF getDateFromFile(file, g) = Null \/ this.noteCaches = Undefined
        THEN Throw("TypeError")
    ELSE LET dt == SubtractYears(getDateFromFile(file, g), lookBack - 1) IN
         Return(IF g = "day" THEN getDailyNote(dt, this.noteCaches.daily)
                ELSE getWeeklyNote(dt, this.noteCaches.weekly))

\* Mutant: a date that cannot be computed is passed over (?. instead of !.).
getFileFromPreviousPeriodNullSafe(this, file, fileType, lookBack) ==
    LET g == IF fileType = "daily" THEN "day" ELSE "week" IN
    IF fileType \notin {"daily", "weekly"} THEN Throw("Unknown File Type")
    ELSE IF this.noteCaches = Undefined THEN Throw("TypeError")
    ELSE IF getDateFromFile(file, g) = Null THEN Return(Null)
    ELSE LET dt == SubtractYears(getDateFromFile(file, g), lookBack) IN
         Return(IF g = "day" THEN getDailyNote(dt, this.noteCaches.daily)
                ELSE getWeeklyNote(dt, this.noteCaches.weekly))

getFileFromPreviousPeriod(this, file, fileType, lookBack) ==
    CASE fileType = "daily" ->
            IF getDateFromFile(file, "day") = Null \/ this.noteCaches = Undefined
                THEN Throw("TypeError")
                ELSE Return(getDailyNote(
                         SubtractYears(getDateFromFile(file, "day"), lookBack),
                         this.noteCaches.daily))
      [] fileType = "weekly" ->
            IF getDateFromFile(file, "week") = Null \/ this.noteCaches = Undefined
                THEN Throw("TypeError")
                ELSE Return(getWeeklyNote(
                         SubtractYears(getDateFromFile(file, "week"), lookBack),
                         this.noteCaches.weekly))
      [] OTHER -> Throw("Unknown File Type")

\* The for loop of _getFilesFromPreviousPeriods from counter i on. A loop
\* that no count ends and no failure stops returns nothing.
RECURSIVE PreviousPeriodsLoop(_, _, _, _, _)
PreviousPeriodsLoop(this, file, fileType, files, i) ==
    LET checkLength == this.settings.lookBack
        found == getFileFromPreviousPeriod(this, file, fileType, i)
    IN IF ~LeqNum(i, checkLength) THEN Return(files)
       ELSE IF found.k = "throw" THEN found
       ELSE IF checkLength.k = "inf" THEN Diverge
       ELSE PreviousPeriodsLoop(this, file, fileType, MapSet(files, i, found.value), i + 1)

\* Mutant: only the years that have a note get an entry.
getFilesFromPreviousPeriodsFoundOnly(this, file, fileType) ==
    LET r == PreviousPeriodsLoop(this, file, fileType, <<>>, 1) IN
    IF r.k = "return" THEN Return(SelectSeq(r.value, LAMBDA e : e.value # Null)) ELSE r

getFilesFromPreviousPeriods(this, file, fileType) ==
    PreviousPeriodsLoop(this, file, fileType, <<>>, 1)

\* A variant without the default branch of the switch: every file type goes
\* to the loop.
getFilesFromLastTimeNoDefault(this, file, fileType) ==
    getFilesFromPreviousPeriods(this, file, fileType)

getFilesFromLastTime(this, file, fileType) ==
    CASE fileType = "daily" -> getFilesFromPreviousPeriods(this, file, fileType)
      [] fileType = "weekly" -> getFilesFromPreviousPeriods(this, file, fileType)
      [] OTHER -> Throw("Unknown File Type")

----------------------------------------------------------------------------
(* The workspace: leaves, their views and the editor DOM *)

\* The leaves in the order getLeavesOfType lists them.
LeafIds == <<"leaf1", "leaf2">>
LeafIdSet == {LeafIds[i] : i \in 1..Len(LeafIds)}

\* A leaf: its id, its view ("markdown": a FileView with sourceMode, or
\* "other"), the view's file (Null when it has none) and the number of
\* elements of class reflection-container in the view's editor container.
Leaf(id, view, file, markers) ==
    [id |-> id, view |-> view, file |-> file, markers |-> markers]

NoLeaves == [id \in LeafIdSet |-> Leaf(id, "other", Null, 0)]

\* models.ts: isWorkspaceLeafEx.
isWorkspaceLeafEx(leaf) == leaf.view = "markdown"

\* leaf.view.file?.path
PathOf(leaf) == IF leaf.file = Null THEN Undefined ELSE leaf.file.path

\* this.leafRegistry[id]: undefined for an id never recorded.
Lookup(registry, id) == IF id \in DOMAIN registry THEN registry[id] ELSE Undefined

\* What runOnLeaf did for one leaf in the last handler.
\*   ret: "notrun", "false", "true" or "throw"; error: what was thrown;
\*   init: init was re-attempted; recorded: the path setLeafRegistry wrote
\*   (Undefined when it wrote none); cleared: removeContentFromFrame ran;
\*   type: what getTypeOfFile gave ("notcalled", "daily", "weekly", "null",
\*   "throw"); inserted: the marker element was inserted.
NotRun == [ret |-> "notrun", error |-> "", init |-> FALSE, recorded |-> Undefined,
           cleared |-> FALSE, type |-> "notcalled", inserted |-> FALSE]

NoLast == [op |-> "none", init |-> FALSE, out |-> [id \in LeafIdSet |-> NotRun]]

----------------------------------------------------------------------------
(* Readiness: init and the two dependency calls (main.ts 52-77) *)

\* establishNoteCaches: both getAll calls fail while the library cannot
\* index the vault; otherwise noteCaches is replaced by the present index.
establishNoteCaches(this) ==
    IF ~dep.notes THEN Throw("NotReady")
    ELSE Return([this EXCEPT !.noteCaches =
                    [k |-> "obj", weekly |-> getAllWeeklyNotes(vault),
                     daily |-> getAllDailyNotes(vault)]])

gatherPeriodicNoteSettings(this) ==
    IF ~dep.settings THEN Throw("NotReady")
    ELSE Return([this EXCEPT !.periodicNotesSettings =
                    [k |-> "obj", weekly |-> libSettings.weekly,
                     daily |-> libSettings.daily]])

\* Mutant: no try/catch around the dependency calls.
initNoCatch(this) ==
    LET a == establishNoteCaches(this) IN
    IF a.k = "throw" THEN [this |-> this, raised |-> TRUE]
    ELSE LET b == gatherPeriodicNoteSettings(a.value) IN
         IF b.k = "throw" THEN [this |-> a.value, raised |-> TRUE]
         ELSE [this |-> [b.value EXCEPT !.ready = TRUE], raised |-> FALSE]

\* init: the plugin after it, and whether init raised.
init(this) ==
    LET a == establishNoteCaches(this) IN
    IF a.k = "throw" THEN [this |-> this, raised |-> FALSE]
    ELSE LET b == gatherPeriodicNoteSettings(a.value) IN
         IF b.k = "throw" THEN [this |-> a.value, raised |-> FALSE]
         ELSE [this |-> [b.value EXCEPT !.ready = TRUE], raised |-> FALSE]

----------------------------------------------------------------------------
(* The render gate (main.ts 116-125) *)

\* Mutant: every leaf is taken to need an update.
doesLeafNeedUpdatingAlways(this, leaf) == TRUE

doesLeafNeedUpdating(this, leaf) ==
    IF Lookup(this.leafRegistry, leaf.id) = PathOf(leaf) THEN FALSE ELSE TRUE

\* Mutant: an entry is created but an existing entry is never overwritten.
setLeafRegistryCreateOnly(this, leaf) ==
    LET path == PathOf(leaf) IN
    IF path # Undefined /\ leaf.id \notin DOMAIN this.leafRegistry
        THEN [this EXCEPT !.leafRegistry =
                 [id \in DOMAIN this.leafRegistry \cup {leaf.id} |->
                     IF id = leaf.id THEN path ELSE this.leafRegistry[id]]]
        ELSE this

\* A path is truthy when the view has a file (no file has an empty path).
setLeafRegistry(this, leaf) ==
    LET path == PathOf(leaf) IN
    IF path # Undefined
        THEN [this EXCEPT !.leafRegistry =
                 [id \in DOMAIN this.leafRegistry \cup {leaf.id} |->
                     IF id = leaf.id THEN path ELSE this.leafRegistry[id]]]
        ELSE this

----------------------------------------------------------------------------
(* The file classifier (main.ts 142-157) *)

\* folder != null && parent.path.startsWith(folder)
FolderMatches(setting, file) ==
    /\ setting.folder \notin {Null, Undefined}
    /\ StartsWith(file.parent.path, setting.folder.s)

\* A variant that tests the weekly folder before the daily folder.
getTypeOfFileWeeklyFirst(this, file) ==
    IF file.parent = Null THEN Return("null")
    ELSE IF this.periodicNotesSettings = Undefined THEN Throw("TypeError")
    ELSE IF FolderMatches(this.periodicNotesSettings.weekly, file) THEN Return("weekly")
    ELSE IF FolderMatches(this.periodicNotesSettings.daily, file) THEN Return("daily")
    ELSE Return("null")

\* Reading .daily of an undefined periodicNotesSettings is a TypeError.
getTypeOfFile(this, file) ==
    IF file.parent = Null THEN Return("null")
    ELSE IF this.periodicNotesSettings = Undefined THEN Throw("TypeError")
    ELSE IF FolderMatches(this.periodicNotesSettings.daily, file) THEN Return("daily")
    ELSE IF FolderMatches(this.periodicNotesSettings.weekly, file) THEN Return("weekly")
    ELSE Return("null")

----------------------------------------------------------------------------
(* Rendering (main.ts 127-210, 264-278) *)

\* The anchors of an editor container: "backlinks" (.cm-sizer holding
\* .embedded-backlinks), "content" (.cm-sizer and .cm-contentContainer, no
\* backlinks), "sizer" (.cm-sizer alone) or "none" (no .cm-sizer).
AnchorKinds == {"backlinks", "content", "sizer", "none"}

\* A handler's state as it runs: the plugin, the leaves and what was done.
Machine(this, ls, out) == [this |-> this, leaves |-> ls, out |-> out]

\* A variant whose loop removes no element.
removeElementsByClassNone(markers) == markers

\* removeElementsByClass: the number of marker elements under the node once
\* the loop has removed the first one until none is left.
removeElementsByClass(markers) == 0

\* removeContentFromFrame(editor.containerEl)
removeContentFromFrame(markers) == removeElementsByClass(markers)

\* addComponentToFrame on a container holding this many marker elements: the
\* marker count after it and what it threw. Marker elements are only ever
\* inserted under .cm-sizer or next to .cm-contentContainer, so those of the
\* container are those removeElementsByClass(parentContainer) finds; the
\* component that mount() builds into the inserted element is not part of
\* this model.
addComponentToFrame(markers) ==
    IF anchors = "none" THEN [markers |-> markers, error |-> "Could not find parent container"]
    ELSE IF anchors = "backlinks"
        THEN [markers |-> removeElementsByClass(markers) + 1, error |-> ""]
    ELSE IF anchors = "content"
        THEN [markers |-> removeElementsByClass(markers) + 1, error |-> ""]
    ELSE [markers |-> removeElementsByClass(markers),
          error |-> "Could not find content container"]

\* renderContent once removeContentFromFrame has left this many markers,
\* getTypeOfFile has answered fileType and, for a periodic note,
\* addComponentToFrame has given added.
Rendered(m, leaf, o, markers, fileType, added) ==
    IF fileType.k = "throw"
        THEN Machine(m.this, [m.leaves EXCEPT ![leaf.id].markers = markers],
                 [m.out EXCEPT ![leaf.id] =
                     [o EXCEPT !.ret = "throw", !.error = fileType.error,
                               !.cleared = TRUE, !.type = "throw"]])
    ELSE IF fileType.value = "null"
        THEN Machine(m.this, [m.leaves EXCEPT ![leaf.id].markers = markers],
                 [m.out EXCEPT ![leaf.id] =
                     [o EXCEPT !.ret = "true", !.cleared = TRUE, !.type = "null"]])
    ELSE Machine(m.this, [m.leaves EXCEPT ![leaf.id].markers = added.markers],
             [m.out EXCEPT ![leaf.id] =
                 [o EXCEPT !.ret = IF added.error = "" THEN "true" ELSE "throw",
                           !.error = added.error,
                           !.cleared = TRUE, !.type = fileType.value,
                           !.inserted = (added.error = "")]])

\* renderContent for the leaf's view and file, within runOnLeaf: o is the
\* record of the call so far.
renderContent(m, leaf, o) ==
    Rendered(m, leaf, o, removeContentFromFrame(leaf.markers),
             getTypeOfFile(m.this, leaf.file),
             addComponentToFrame(removeContentFromFrame(leaf.markers)))

\* runOnLeaf after its first statement: i is the plugin after the init
\* that may have run, o the record of the call so far.
Gated(m, leaf, i, o) ==
    IF i.raised
        THEN Machine(i.this, m.leaves,
                 [m.out EXCEPT ![leaf.id] = [o EXCEPT !.ret = "throw", !.error = "init"]])
    ELSE IF ~isWorkspaceLeafEx(leaf) \/ ~doesLeafNeedUpdating(i.this, leaf)
        THEN Machine(i.this, m.leaves, [m.out EXCEPT ![leaf.id] = [o EXCEPT !.ret = "false"]])
    ELSE IF leaf.file = Null
        THEN Machine(i.this, m.leaves, [m.out EXCEPT ![leaf.id] = [o EXCEPT !.ret = "false"]])
    ELSE renderContent(Machine(setLeafRegistry(i.this, leaf), m.leaves, m.out), leaf,
                       [o EXCEPT !.recorded = PathOf(leaf)])

\* Mutant: init is re-attempted on every call, ready or not.
runOnLeafAlwaysInit(m, id) ==
    Gated(m, m.leaves[id], init(m.this), [NotRun EXCEPT !.init = TRUE])

\* runOnLeaf(leaf) for the leaf with this id.
runOnLeaf(m, id) ==
    IF ~m.this.ready
        THEN Gated(m, m.leaves[id], init(m.this), [NotRun EXCEPT !.init = TRUE])
        ELSE Gated(m, m.leaves[id], [this |-> m.this, raised |-> FALSE], NotRun)

\* updateAllLeaves: runOnLeaf over the markdown leaves in order; an
\* exception ends the forEach.
RECURSIVE RunOnLeaves(_, _)
RECURSIVE NextLeaf(_, _)
RunOnLeaves(m, ids) ==
    IF ids = <<>> THEN m ELSE NextLeaf(runOnLeaf(m, Head(ids)), ids)

\* forEach after the callback ran for the first of ids.
NextLeaf(n, ids) ==
    IF n.out[Head(ids)].ret = "throw" THEN n ELSE RunOnLeaves(n, Tail(ids))

updateAllLeaves(m) ==
    RunOnLeaves(m, SelectSeq(LeafIds, LAMBDA id : m.leaves[id].view = "markdown"))

----------------------------------------------------------------------------
(* The universe the inputs are drawn from *)

\* The years of the notes: the year of the newest reference note and as
\* many earlier years as the largest look-back count reaches, and one more.
Years == (2023 - MaxLookBack)..2024
TopYear == CHOOSE y \in Years : \A z \in Years : z <= y

NoteNames ==
    {DayName(y, md[1], md[2]) : y \in Years, md \in {<<2, 28>>, <<2, 29>>, <<3, 15>>}}
    \cup {WeekName(y, w) : y \in Years, w \in {10, 11}}

\* The files a vault can hold: named as periodic notes, in their folder.
VaultFiles ==
    {TFile(Folder(DailyFolder), n) : n \in {m \in NoteNames : m.f = "D"}}
    \cup {TFile(Folder(WeeklyFolder), n) : n \in {m \in NoteNames : m.f = "W"}}
    \cup {TFile(Folder(DailyFolder), JunkName)}

RECURSIVE SubsetsUpTo(_, _)
SubsetsUpTo(S, n) ==
    IF n = 0 THEN {{}}
    ELSE LET P == SubsetsUpTo(S, n - 1) IN P \cup {v \cup {f} : v \in P, f \in S}

Vaults == SubsetsUpTo(VaultFiles, MaxNotes)

\* The reference notes the resolver is asked about.
ReferenceFiles ==
    {f \in VaultFiles : f.basename.y >= TopYear - 1 \/ f.basename = JunkName}

FileTypes == {"daily", "weekly"}

LookBacks == {Int2Num(n) : n \in 0..MaxLookBack} \cup {Inf(1)}

NoCall == [k |-> "none"]

----------------------------------------------------------------------------
(* Specification of the plugin's life: onload, navigation events and the
   host around them *)

FileD == TFile(Folder(DailyFolder), DayName(TopYear, 3, 15))
FileRoot == TFile(Null, JunkName)
OpenableFiles == {FileD, FileRoot}

NoteA == TFile(Folder(DailyFolder), DayName(TopYear - 1, 3, 15))

\* The folder configurations of the indexing library, for a file in the
\* folder d: the usual one (daily), an empty daily folder with the weekly
\* folder d (under both), no daily folder with the weekly folder d (weekly)
\* and the daily folder w with no weekly folder (under neither).
LibSettingsChoices ==
    {[daily |-> [folder |-> Str(DailyFolder)], weekly |-> [folder |-> Str(WeeklyFolder)]],
     [daily |-> [folder |-> Str(<<>>)], weekly |-> [folder |-> Str(DailyFolder)]],
     [daily |-> [folder |-> Undefined], weekly |-> [folder |-> Str(DailyFolder)]],
     [daily |-> [folder |-> Str(WeeklyFolder)], weekly |-> [folder |-> Undefined]]}

\* Whether the getAll...Notes calls and the get...NoteSettings calls succeed.
Deps == [notes : BOOLEAN, settings : BOOLEAN]

\* The state after construction (main.ts 11-18).
Init ==
    /\ settings = Undefined
    /\ ready = FALSE
    /\ noteCaches = Undefined
    /\ periodicNotesSettings = Undefined
    /\ leafRegistry = [id \in {} |-> Undefined]
    /\ data = Undefined
    /\ text = <<>>
    /\ phase = "constructed"
    /\ dep \in Deps
    /\ vault \in SUBSET {NoteA}
    /\ libSettings \in LibSettingsChoices
    /\ leaves = NoLeaves
    /\ anchors \in AnchorKinds
    /\ last = NoLast
    /\ call = NoCall
    /\ navigated = {}

\* loadSettings: Object.assign({}, DEFAULT_SETTINGS, loadData()).
loadSettings(this) ==
    [this EXCEPT !.settings = IF data = Undefined THEN DEFAULT_SETTINGS ELSE data]

\* The plugin, the leaves and the record of the handler become the state.
Handled(op, initRan, m) ==
    /\ settings' = m.this.settings
    /\ ready' = m.this.ready
    /\ noteCaches' = m.this.noteCaches
    /\ periodicNotesSettings' = m.this.periodicNotesSettings
    /\ leafRegistry' = m.this.leafRegistry
    /\ leaves' = m.leaves
    /\ last' = [op |-> op, init |-> initRan, out |-> m.out]
    /\ UNCHANGED <<data, text, dep, vault, libSettings, anchors, call>>

Becomes(op, initRan, m) == Handled(op, initRan, m) /\ UNCHANGED navigated

\* onload after init: every leaf is updated unless init raised.
Loaded(i) ==
    IF i.raised THEN Machine(i.this, leaves, NoLast.out)
    ELSE updateAllLeaves(Machine(i.this, leaves, NoLast.out))

\* onload (main.ts 20-30): settings, event registration, init, all leaves.
OnLoad ==
    /\ phase = "constructed"
    /\ phase' = "loaded"
    /\ Becomes("onload", TRUE, Loaded(init(loadSettings(This))))

\* "active-leaf-change" with a leaf (main.ts 38-42).
ActiveLeafChange(id) ==
    /\ phase = "loaded"
    /\ UNCHANGED phase
    /\ Becomes("active-leaf-change", FALSE, runOnLeaf(Machine(This, leaves, NoLast.out), id))

\* "active-leaf-change" without a leaf: the handler does nothing.
ActiveLeafChangeNull ==
    /\ phase = "loaded"
    /\ UNCHANGED phase
    /\ Becomes("active-leaf-change", FALSE, Machine(This, leaves, NoLast.out))

\* "window-open" (main.ts 45-49).
WindowOpen ==
    /\ phase = "loaded"
    /\ UNCHANGED phase
    /\ Becomes("window-open", FALSE, updateAllLeaves(Machine(This, leaves, NoLast.out)))

\* The host and the user, between the plugin's handlers.
HostStep == last' = [NoLast EXCEPT !.op = "host"]

\* A file is opened in a leaf: in its markdown view when it has one, else
\* in a new one, whose editor holds no marker element.
OpenFile(id, file) ==
    /\ leaves' = [leaves EXCEPT ![id] =
           Leaf(id, "markdown", file,
                IF leaves[id].view = "markdown" THEN leaves[id].markers ELSE 0)]
    /\ HostStep
    /\ UNCHANGED <<settings, ready, noteCaches, periodicNotesSettings, leafRegistry,
                   data, text, phase, dep, vault, libSettings, anchors, call,
                   navigated>>

\* The markdown view of a leaf is left without a file.
CloseFile(id) ==
    /\ leaves[id].view = "markdown"
    /\ leaves' = [leaves EXCEPT ![id].file = Null]
    /\ HostStep
    /\ UNCHANGED <<settings, ready, noteCaches, periodicNotesSettings, leafRegistry,
                   data, text, phase, dep, vault, libSettings, anchors, call,
                   navigated>>

\* A leaf shows a view that is no markdown view.
ShowOther(id) ==
    /\ leaves' = [leaves EXCEPT ![id] = Leaf(id, "other", Null, 0)]
    /\ HostStep
    /\ UNCHANGED <<settings, ready, noteCaches, periodicNotesSettings, leafRegistry,
                   data, text, phase, dep, vault, libSettings, anchors, call,
                   navigated>>

\* The indexing library becomes able or unable to answer.
DepChange(d) ==
    /\ d # dep
    /\ dep' = d
    /\ HostStep
    /\ UNCHANGED <<settings, ready, noteCaches, periodicNotesSettings, leafRegistry,
                   data, text, phase, vault, libSettings, leaves, anchors, call,
                   navigated>>

\* Notes are created or deleted.
VaultChange(v) ==
    /\ v # vault
    /\ vault' = v
    /\ HostStep
    /\ UNCHANGED <<settings, ready, noteCaches, periodicNotesSettings, leafRegistry,
                   data, text, phase, dep, libSettings, leaves, anchors, call,
                   navigated>>

\* The editors' DOM gains or loses anchor elements.
AnchorsChange(a) ==
    /\ a # anchors
    /\ anchors' = a
    /\ HostStep
    /\ UNCHANGED <<settings, ready, noteCaches, periodicNotesSettings, leafRegistry,
                   data, text, phase, dep, vault, libSettings, leaves, call,
                   navigated>>

Next ==
    \/ OnLoad
    \/ \E id \in LeafIdSet : ActiveLeafChange(id)
    \/ ActiveLeafChangeNull
    \/ WindowOpen
    \/ \E id \in LeafIdSet, file \in OpenableFiles : OpenFile(id, file)
    \/ \E id \in LeafIdSet : CloseFile(id)
    \/ \E id \in LeafIdSet : ShowOther(id)
    \/ \E d \in Deps : DepChange(d)
    \/ \E v \in SUBSET {NoteA} : VaultChange(v)
    \/ \E a \in AnchorKinds : AnchorsChange(a)

Spec == Init /\ [][Next]_vars

----------------------------------------------------------------------------
(* Specification of navigation before readiness: the handlers of Spec, with
   the record of the views that navigation events reached while the plugin
   was not ready. Markdown views, once opened, stay. *)

InitNav ==
    /\ Init
    /\ vault = {}
    /\ libSettings = [daily |-> [folder |-> Str(DailyFolder)],
                      weekly |-> [folder |-> Str(WeeklyFolder)]]
    /\ anchors \in {"backlinks", "content"}

\* The markdown views a navigation event has reached while the plugin was
\* not ready, after the handler ended in m: an event that leaves the plugin
\* not ready adds the views it ran runOnLeaf for; the record ends when the
\* plugin is ready.
Navigated(m) ==
    IF m.this.ready THEN {}
    ELSE navigated \cup {id \in LeafIdSet : /\ m.out[id].ret # "notrun"
                                            /\ isWorkspaceLeafEx(m.leaves[id])}

Navigates(op, m) == Handled(op, FALSE, m) /\ navigated' = Navigated(m)

\* "active-leaf-change" with a leaf (main.ts 38-42).
NavActiveLeafChange(id) ==
    /\ phase = "loaded"
    /\ UNCHANGED phase
    /\ Navigates("active-leaf-change", runOnLeaf(Machine(This, leaves, NoLast.out), id))

\* "window-open" (main.ts 45-49).
NavWindowOpen ==
    /\ phase = "loaded"
    /\ UNCHANGED phase
    /\ Navigates("window-open", updateAllLeaves(Machine(This, leaves, NoLast.out)))

NextNav ==
    \/ OnLoad
    \/ \E id \in LeafIdSet : NavActiveLeafChange(id)
    \/ NavWindowOpen
    \/ \E id \in LeafIdSet, file \in OpenableFiles : OpenFile(id, file)
    \/ \E d \in Deps : DepChange(d)

SpecNav == InitNav /\ [][NextNav]_vars

----------------------------------------------------------------------------
(* Specification of the resolver: getFilesFromLastTime on a ready plugin *)

InitResolver ==
    /\ settings \in {[lookBack |-> n] : n \in LookBacks}
    /\ data = settings
    /\ text = <<>>
    /\ ready = TRUE
    /\ vault \in Vaults
    /\ noteCaches = [k |-> "obj", weekly |-> getAllWeeklyNotes(vault),
                     daily |-> getAllDailyNotes(vault)]
    /\ libSettings = [weekly |-> [folder |-> Str(WeeklyFolder)],
                      daily |-> [folder |-> Str(DailyFolder)]]
    /\ periodicNotesSettings = [k |-> "obj", weekly |-> libSettings.weekly,
                                daily |-> libSettings.daily]
    /\ leafRegistry = [id \in {} |-> Undefined]
    /\ phase = "loaded"
    /\ dep = [notes |-> TRUE, settings |-> TRUE]
    /\ leaves = NoLeaves
    /\ anchors = "backlinks"
    /\ last = NoLast
    /\ call = NoCall
    /\ navigated = {}

\* A variant whose loop counts this.settings.lookBack itself down to zero.
AfterGetFilesFromLastTimeCountDown(this, file, fileType) ==
    IF fileType \in {"daily", "weekly"}
    THEN [this EXCEPT !.settings.lookBack = Int2Num(0)]
    ELSE this

\* The plugin object after a call of getFilesFromLastTime, returned or
\* failed: the function and the two it calls read this.settings.lookBack and
\* this.noteCaches and assign no field of the plugin; the look-back count is
\* copied into the local checkLength.
AfterGetFilesFromLastTime(this, file, fileType) == this

\* One call per behaviour: the function is applied to the inputs Init drew.
CallGetFilesFromLastTime(file, fileType) ==
    /\ call = NoCall
    /\ call' = [k |-> "call", file |-> file, fileType |-> fileType,
                outcome |-> getFilesFromLastTime(This, file, fileType)]
    /\ settings' = AfterGetFilesFromLastTime(This, file, fileType).settings
    /\ ready' = AfterGetFilesFromLastTime(This, file, fileType).ready
    /\ noteCaches' = AfterGetFilesFromLastTime(This, file, fileType).noteCaches
    /\ periodicNotesSettings' =
           AfterGetFilesFromLastTime(This, file, fileType).periodicNotesSettings
    /\ leafRegistry' = AfterGetFilesFromLastTime(This, file, fileType).leafRegistry
    /\ UNCHANGED <<data, text, phase, dep, vault, libSettings, leaves, anchors, last,
                   navigated>>

NextResolver ==
    \E file \in ReferenceFiles, fileType \in FileTypes \cup {"monthly"} :
        CallGetFilesFromLastTime(file, fileType)

SpecResolver == InitResolver /\ [][NextResolver]_vars

----------------------------------------------------------------------------
(* The settings tab (settings.ts) *)

\* The characters typed into the field; "Infinity" stands for that word.
Digits == <<"0", "1", "2", "3", "4", "5", "6", "7", "8", "9">>
DigitChars == {Digits[i] : i \in 1..10}
Alphabet == {"-", ".", "0", "1", "5", "a", "Infinity"}

RECURSIVE TextsUpTo(_)
TextsUpTo(n) ==
    IF n = 0 THEN {<<>>}
    ELSE TextsUpTo(n - 1) \cup
         {Append(t, c) : t \in {u \in TextsUpTo(n - 1) : Len(u) = n - 1}, c \in Alphabet}

Texts == TextsUpTo(MaxTextLen)

DigitValue(c) == (CHOOSE i \in 1..10 : Digits[i] = c) - 1

\* The value of a sequence of digits.
RECURSIVE DigitsValue(_)
DigitsValue(ds) ==
    IF ds = <<>> THEN 0
    ELSE 10 * DigitsValue(SubSeq(ds, 1, Len(ds) - 1)) + DigitValue(ds[Len(ds)])

\* Number(value) of JavaScript on these characters: the empty string is 0,
\* an optional sign, then Infinity or decimal digits with at most one point
\* and at least one digit; anything else is NaN.
Number(value) ==
    IF value = <<>> THEN Fin(0)
    ELSE LET neg == value[1] = "-"
             body == IF neg THEN Tail(value) ELSE value
             dots == {i \in 1..Len(body) : body[i] = "."}
             dot == IF dots = {} THEN Len(body) + 1 ELSE CHOOSE i \in dots : TRUE
             whole == SubSeq(body, 1, dot - 1)
             frac == SubSeq(body, dot + 1, Len(body))
             mag == DigitsValue(whole) * Scale
                    + DigitsValue(frac) * (Scale \div Pow10(Len(frac)))
         IN IF body = <<"Infinity">> THEN Inf(IF neg THEN -1 ELSE 1)
            ELSE IF /\ \A i \in 1..Len(body) : body[i] \in DigitChars \cup {"."}
                    /\ Cardinality(dots) <= 1
                    /\ Len(whole) + Len(frac) >= 1
                THEN Fin(IF neg THEN -mag ELSE mag)
            ELSE NaN

isNaN(n) == n.k = "nan"

\* n < 0 for a JavaScript number.
LessThanZero(n) == n.k \in {"fin", "inf"} /\ n.v < 0

\* Math.round: the nearest integer, halves upwards.
MathRound(n) ==
    IF n.k = "fin" THEN Fin(((n.v + (Scale \div 2)) \div Scale) * Scale) ELSE n

\* Number.prototype.toString of a whole number or Infinity.
RECURSIVE NatToString(_)
NatToString(n) ==
    IF n < 10 THEN <<Digits[n + 1]>>
    ELSE Append(NatToString(n \div 10), Digits[(n % 10) + 1])

NumToString(n) ==
    CASE n.k = "inf" -> IF n.v > 0 THEN <<"Infinity">> ELSE <<"-", "Infinity">>
      [] n.k = "fin" /\ n.v >= 0 -> NatToString(n.v \div Scale)
      [] OTHER -> <<"a">>

\* Mutant: the range check lets negative numbers through.
onChangeValueNoRangeCheck(this, value) ==
    LET newLookBack == Number(value) IN
    IF isNaN(newLookBack) THEN this.settings
    ELSE [this.settings EXCEPT !.lookBack = MathRound(newLookBack)]

\* The settings after onChange(value).
onChangeValue(this, value) ==
    LET newLookBack == Number(value) IN
    IF isNaN(newLookBack) \/ LessThanZero(newLookBack) THEN this.settings
    ELSE [this.settings EXCEPT !.lookBack = MathRound(newLookBack)]

\* display(): the field shows the look-back count.
Display ==
    /\ text' = NumToString(settings.lookBack)
    /\ UNCHANGED <<settings, ready, noteCaches, periodicNotesSettings, leafRegistry,
                   data, phase, dep, vault, libSettings, leaves, anchors, last, call,
                   navigated>>

\* The text of the field changes to value: the onChange callback, which
\* saves the settings when it accepted the value.
OnChange(value) ==
    /\ text' = value
    /\ settings' = onChangeValue(This, value)
    /\ data' = IF isNaN(Number(value)) \/ LessThanZero(Number(value))
               THEN data ELSE settings'
    /\ UNCHANGED <<ready, noteCaches, periodicNotesSettings, leafRegistry,
                   phase, dep, vault, libSettings, leaves, anchors, last, call,
                   navigated>>

InitSettings ==
    /\ settings = DEFAULT_SETTINGS
    /\ data = Undefined
    /\ text = <<>>
    /\ ready = FALSE
    /\ noteCaches = Undefined
    /\ periodicNotesSettings = Undefined
    /\ leafRegistry = [id \in {} |-> Undefined]
    /\ phase = "loaded"
    /\ dep = [notes |-> FALSE, settings |-> FALSE]
    /\ vault = {}
    /\ libSettings = [weekly |-> [folder |-> Str(WeeklyFolder)],
                      daily |-> [folder |-> Str(DailyFolder)]]
    /\ leaves = NoLeaves
    /\ anchors = "backlinks"
    /\ last = NoLast
    /\ call = NoCall
    /\ navigated = {}

NextSettings ==
    \/ Display
    \/ \E value \in Texts : OnChange(value)

SpecSettings == InitSettings /\ [][NextSettings]_vars

\* C7 as claimed: the look-back count is always an integer >= 1.
C7_LookBackPositive ==
    /\ settings.lookBack.k = "fin"
    /\ settings.lookBack.v % Scale = 0
    /\ settings.lookBack.v >= Scale

\* C7 amended: the look-back count is never NaN and never negative: it is
\* an integer >= 0, or Infinity once the text Infinity was entered.
C7_LookBackNotNegative ==
    \/ /\ settings.lookBack.k = "fin"
       /\ settings.lookBack.v % Scale = 0
       /\ settings.lookBack.v >= 0
    \/ settings.lookBack = Inf(1)

C7_Witness ==
    /\ text = <<".", "5">>
    /\ settings.lookBack = Int2Num(1)
    /\ data = settings

----------------------------------------------------------------------------
(* Claims about the resolver, checked under SpecResolver *)

Granularity(fileType) == IF fileType = "daily" THEN "day" ELSE "week"

\* The call was made with a known file type.
Called == call.k = "call" /\ call.fileType \in FileTypes

Resolvable == getDateFromFile(call.file, Granularity(call.fileType)) # Null

\* The look-back count when it is a count.
CountN == settings.lookBack.v \div Scale
IsCount == settings.lookBack.k = "fin" /\ settings.lookBack.v % Scale = 0
               /\ settings.lookBack.v >= 0

\* C1: for a look-back count N >= 0 and a reference note with a resolvable
\* date, getFilesFromLastTime returns a mapping of exactly N entries whose
\* keys are 1..N in ascending order (empty for N = 0).
C1_KeysOneToN ==
    (Called /\ Resolvable /\ IsCount) =>
        /\ call.outcome.k = "return"
        /\ Len(call.outcome.value) = CountN
        /\ \A i \in 1..CountN : call.outcome.value[i].key = i

C1_Witness ==
    /\ Called /\ Resolvable /\ IsCount
    /\ call.outcome.k = "return"
    /\ Len(call.outcome.value) >= 2

\* The notes of an index whose own date falls in the period of dt.
HeldFor(index, dt, g) ==
    {index[u] : u \in {x \in DOMAIN index :
        getDateUID(getDateFromFile(index[x], g), g) = getDateUID(dt, g)}}

\* C2: the entry for offset k is the note the cache of the file type holds
\* for (reference date - k years), counted from the reference note's own
\* date; when the cache holds none the key is present with the absent marker.
C2_EntryPerOffset ==
    (Called /\ Resolvable /\ IsCount) =>
        LET g == Granularity(call.fileType)
            index == IF call.fileType = "daily" THEN noteCaches.daily
                     ELSE noteCaches.weekly
            ref == getDateFromFile(call.file, g)
        IN /\ call.outcome.k = "return"
           /\ \A k \in 1..CountN :
                LET held == HeldFor(index, SubtractYears(ref, k), g)
                    es == {i \in DOMAIN call.outcome.value :
                               call.outcome.value[i].key = k}
                IN /\ Cardinality(es) = 1
                   /\ \A i \in es :
                        IF held = {} THEN call.outcome.value[i].value = Null
                        ELSE call.outcome.value[i].value \in held

C2_Witness ==
    /\ Called /\ Resolvable /\ IsCount
    /\ call.outcome.k = "return"
    /\ Len(call.outcome.value) = 3
    /\ call.outcome.value[1].value # Null
    /\ call.outcome.value[2].value = Null
    /\ call.outcome.value[3].value # Null

\* C8 as claimed: a reference note whose date cannot be computed makes the
\* call fail for every look-back count, 0 included.
C8_FailsForEveryCount ==
    (Called /\ ~Resolvable) => call.outcome.k = "throw"

\* C8 amended: it fails for every look-back count >= 1; with a count of 0
\* the date is never computed and the empty mapping is returned.
C8_FailsFromOne ==
    (Called /\ ~Resolvable) =>
        IF LeqNum(1, settings.lookBack) THEN call.outcome = Throw("TypeError")
        ELSE call.outcome = Return(<<>>)

C8_Witness ==
    /\ Called /\ ~Resolvable
    /\ LeqNum(1, settings.lookBack)
    /\ call.outcome.k = "throw"

\* C11: a call of getFilesFromLastTime with a file type other than daily or
\* weekly fails with the "Unknown File Type" error and returns no mapping,
\* empty or partial, whatever the look-back count and whatever the file.
C11_UnknownFileTypeFails ==
    (call.k = "call" /\ call.fileType \notin FileTypes)
        => call.outcome = Throw("Unknown File Type")

\* A call with the type "monthly" and a look-back count of zero, where the
\* loop alone would have returned the empty mapping, has failed.
C11_Witness ==
    /\ call.k = "call"
    /\ call.fileType = "monthly"
    /\ settings.lookBack = Int2Num(0)
    /\ call.outcome = Throw("Unknown File Type")

----------------------------------------------------------------------------
(* Claims about the plugin's life, checked under Spec *)

Ran(o) == o.ret # "notrun"

\* The step is a handler of the plugin / a navigation event.
HandlerStep == last'.op \in {"onload", "active-leaf-change", "window-open"}
NavigationStep == last'.op \in {"active-leaf-change", "window-open"}

DepsSucceed == dep.notes /\ dep.settings

\* The file's parent path is prefixed by a configured folder.
UnderDaily(file) == FolderMatches(libSettings.daily, file)
UnderWeekly(file) == FolderMatches(libSettings.weekly, file)

\* C3: getTypeOfFile is total: whenever it is called, in any reachable state
\* of the plugin, it returns daily, weekly or none without failing, and none
\* exactly when the file has no parent or its parent path is under neither
\* configured folder.
C3_GetTypeOfFileTotal ==
    \A id \in LeafIdSet :
        last.out[id].type # "notcalled" =>
            LET file == leaves[id].file IN
            /\ last.out[id].type \in {"daily", "weekly", "null"}
            /\ (last.out[id].type = "null") <=>
                   (file.parent = Null \/ (~UnderDaily(file) /\ ~UnderWeekly(file)))

\* C4: right after setLeafRegistry recorded (id, path), doesLeafNeedUpdating
\* is false for the same id and path and true for the same id with any
\* other path, whatever was recorded before for this or other leaves.
C4_GateAfterRecord ==
    \A id \in LeafIdSet :
        last.out[id].recorded # Undefined =>
            \A file \in OpenableFiles \cup {Null} :
                doesLeafNeedUpdating(This, Leaf(id, "markdown", file, 0))
                    = (PathOf(Leaf(id, "markdown", file, 0)) # last.out[id].recorded)

C4_Witness ==
    \E id, other \in LeafIdSet :
        /\ last.out[id].recorded # Undefined
        /\ id # other
        /\ Lookup(leafRegistry, other) \notin {Undefined, last.out[id].recorded}

\* C5: a failing dependency call is swallowed by init (no handler fails in
\* init) and leaves ready false; while ready is false a navigation event
\* that reaches runOnLeaf re-attempts init first, so that a render after a
\* successful init already reads the settings; ready becomes true exactly
\* in an init in which both calls succeed; nothing but onload and
\* navigation events touches ready, noteCaches or periodicNotesSettings.
C5_ReadinessRetry ==
    [][/\ \A id \in LeafIdSet : last'.out[id].error # "init"
       /\ (HandlerStep /\ ~ready /\ ~DepsSucceed) => ~ready'
       /\ (NavigationStep /\ ~ready /\ \E id \in LeafIdSet : Ran(last'.out[id])) =>
              /\ \E id \in LeafIdSet : last'.out[id].init
              /\ ~ready' => \A id \in LeafIdSet : Ran(last'.out[id]) => last'.out[id].init
              /\ ready' => \A id \in LeafIdSet : last'.out[id].type # "throw"
              /\ ready' = DepsSucceed
       /\ (~ready /\ ready') =>
              /\ DepsSucceed
              /\ last'.init \/ \E id \in LeafIdSet : last'.out[id].init
       /\ ~HandlerStep => UNCHANGED <<ready, noteCaches, periodicNotesSettings>>
      ]_vars

C5_Witness ==
    /\ ready
    /\ last.op = "active-leaf-change"
    /\ \E id \in LeafIdSet : last.out[id].init

\* C6: a registry entry is written only by a render that completed: when
\* runOnLeaf failed for a leaf, the registry does not hold the leaf's path
\* for it; and no step removes an entry.
C6_EntryOnlyAfterRender ==
    /\ \A id \in LeafIdSet :
           last.out[id].ret = "throw" => Lookup(leafRegistry, id) # PathOf(leaves[id])
    /\ \A id \in LeafIdSet :
           last.out[id].recorded # Undefined => id \in DOMAIN leafRegistry

\* C9: once ready is true it stays true, and from then on no step re-runs
\* init or assigns noteCaches or periodicNotesSettings.
C9_BuiltOnce ==
    [][ready =>
          /\ ready'
          /\ UNCHANGED <<noteCaches, periodicNotesSettings>>
          /\ ~last'.init
          /\ \A id \in LeafIdSet : ~last'.out[id].init
      ]_vars

C9_Witness ==
    /\ ready
    /\ noteCaches.daily # getAllDailyNotes(vault)
    /\ last.op = "window-open"
    /\ \E id \in LeafIdSet : last.out[id].ret = "true"

\* C10: runOnLeaf for a view whose registry entry equals the path of the
\* view's file returns false, leaves the panel as it is (nothing cleared,
\* nothing inserted) and leaves the registry as it is.
C10_GateSuppresses ==
    [][\A id \in LeafIdSet :
          (/\ HandlerStep
           /\ Ran(last'.out[id])
           /\ isWorkspaceLeafEx(leaves[id])
           /\ Lookup(leafRegistry, id) = PathOf(leaves[id])) =>
              /\ last'.out[id].ret = "false"
              /\ ~last'.out[id].cleared
              /\ ~last'.out[id].inserted
              /\ leaves'[id] = leaves[id]
              /\ Lookup(leafRegistry', id) = Lookup(leafRegistry, id)
              /\ last'.op = "active-leaf-change" => leafRegistry' = leafRegistry
      ]_vars

C10_Witness ==
    /\ last.op = "active-leaf-change"
    /\ \E id \in LeafIdSet :
           /\ last.out[id].ret = "false"
           /\ leaves[id].file # Null
           /\ Lookup(leafRegistry, id) = PathOf(leaves[id])
           /\ leaves[id].markers = 1

\* The file's parent path is prefixed by a folder the plugin holds in
\* periodicNotesSettings.
PrefixedByDaily(file) ==
    /\ periodicNotesSettings # Undefined
    /\ file.parent # Null
    /\ FolderMatches(periodicNotesSettings.daily, file)
PrefixedByWeekly(file) ==
    /\ periodicNotesSettings # Undefined
    /\ file.parent # Null
    /\ FolderMatches(periodicNotesSettings.weekly, file)

\* C12: daily is checked before weekly: whenever getTypeOfFile has been called
\* on a file whose parent path is prefixed by both the configured daily
\* folder and the configured weekly folder, the file is classified daily, and
\* a file is classified weekly only when its parent path is prefixed by the
\* weekly folder and not by the daily folder.
C12_DailyBeforeWeekly ==
    \A id \in LeafIdSet :
        last.out[id].type # "notcalled" =>
            /\ (PrefixedByDaily(leaves[id].file) /\ PrefixedByWeekly(leaves[id].file))
                   => last.out[id].type = "daily"
            /\ last.out[id].type = "weekly"
                   => (PrefixedByWeekly(leaves[id].file) /\ ~PrefixedByDaily(leaves[id].file))

\* A file under both configured folders has been classified, as daily.
C12_Witness ==
    \E id \in LeafIdSet :
        /\ last.out[id].type = "daily"
        /\ PrefixedByDaily(leaves[id].file)
        /\ PrefixedByWeekly(leaves[id].file)

\* C14: init before use: getTypeOfFile and the render path of runOnLeaf (the
\* registry write, the removal of the markers) are entered only when ready is
\* true; a navigation event that finds the plugin still not ready after the
\* re-attempted init renders nothing and records nothing in the registry.
C14_InitBeforeUse ==
    \A id \in LeafIdSet :
        /\ (\/ last.out[id].type # "notcalled"
            \/ last.out[id].cleared
            \/ last.out[id].recorded # Undefined) => ready
        /\ (/\ last.op \in {"active-leaf-change", "window-open"}
            /\ last.out[id].init
            /\ ~ready)
               => /\ last.out[id].recorded = Undefined
                  /\ ~last.out[id].cleared
                  /\ ~last.out[id].inserted

\* The view of the leaf shows a periodic note and its editor holds the
\* anchors a panel is inserted at.
ShowsPeriodicNote(id) ==
    /\ isWorkspaceLeafEx(leaves[id])
    /\ leaves[id].file # Null
    /\ leaves[id].file.parent # Null
    /\ UnderDaily(leaves[id].file) \/ UnderWeekly(leaves[id].file)
    /\ anchors \in {"backlinks", "content"}

\* C15: a view showing a periodic note that received navigation events while
\* the plugin was not ready holds its panel after the navigation event for
\* that view in which the plugin becomes ready, the first one for it after
\* readiness, whether or not the view's file has changed: the render gate
\* never keeps the panel missing.
C15_PanelAfterReady ==
    [][\A id \in LeafIdSet :
          (/\ id \in navigated
           /\ ShowsPeriodicNote(id)
           /\ last'.op \in {"active-leaf-change", "window-open"}
           /\ last'.out[id].ret # "notrun"
           /\ ready')
              => leaves'[id].markers = 1]_vars

\* C16: an editor container never holds more than one element with the
\* marker class: every renderContent first removes all marker elements, then
\* inserts exactly one when the file is classified daily or weekly and an
\* anchor exists, and none when the file is classified none or when
\* addComponentToFrame fails for a missing anchor.
C16_AtMostOneMarker ==
    \A id \in LeafIdSet :
        /\ leaves[id].markers <= 1
        /\ last.out[id].cleared =>
               /\ leaves[id].markers =
                      IF /\ last.out[id].type \in {"daily", "weekly"}
                         /\ anchors \in {"backlinks", "content"}
                      THEN 1 ELSE 0
               /\ last.out[id].inserted <=> leaves[id].markers = 1
               /\ last.out[id].error \in {"Could not find parent container",
                                          "Could not find content container"}
                      => leaves[id].markers = 0

\* A render has removed the markers of a container and inserted one.
C16_Witness ==
    \E id \in LeafIdSet :
        /\ last.out[id].cleared
        /\ last.out[id].inserted
        /\ leaves[id].markers = 1

====
